---- MODULE Spec2Model ----
\* A model of the govsphere code generator (src/generate.go): the identifier
\* and type utilities, the namespace index, and the concurrent generation of
\* the four packages mo, do, enum and fault.
\*
\* Go strings are TLA+ strings; Len, SubSeq and \o act on them as on Go's
\* byte strings (all text used here is ASCII).
EXTENDS Integers, Sequences, FiniteSets, TLC

VARIABLES
    objects,    \* generate: the []Object decoded from the schema file
    objnsmap,   \* the package-level map from object name to namespace
    pc,         \* generate: position of the main goroutine
    bi,         \* generate: index of the range loop that populates objnsmap
    wg,         \* generate: counter of the sync.WaitGroup
    task,       \* position of each genCode goroutine, by namespace
    files,      \* the output file of each namespace
    exited,     \* the outcome of the process once os.Exit has been called
    call        \* the last call of a template function, with its result

vars == <<objects, objnsmap, pc, bi, wg, task, files, exited, call>>

----------------------------------------------------------------------------
\* Bounds of the model.

\* The longest schema (number of objects) the model reads.
MaxObjects == 2

----------------------------------------------------------------------------
\* Go primitives used by the code.

\* m[k] of a Go map[string]string: the zero value "" when k is absent.
MapGet(m, k) == IF k \in DOMAIN m THEN m[k] ELSE ""

\* m[k] = v of a Go map.
MapPut(m, k, v) == [x \in (DOMAIN m) \cup {k} |-> IF x = k THEN v ELSE m[x]]

EmptyMap == [x \in {} |-> ""]

\* s[from:] of a Go string, from counted from 0 and from <= len(s).
StrFrom(s, from) == SubSeq(s, from + 1, Len(s))

\* s[0:to] of a Go string, for to <= len(s).
StrTo(s, to) == SubSeq(s, 1, to)

\* strings.HasSuffix
HasSuffix(s, suffix) ==
    /\ Len(s) >= Len(suffix)
    /\ SubSeq(s, Len(s) - Len(suffix) + 1, Len(s)) = suffix

\* strings.Split(s, sep) for a separator of one character.
RECURSIVE Split(_, _)
Split(s, sep) ==
    IF \E i \in 1..Len(s) : SubSeq(s, i, i) = sep
    THEN LET i == CHOOSE k \in 1..Len(s) :
                      /\ SubSeq(s, k, k) = sep
                      /\ \A j \in 1..(k - 1) : SubSeq(s, j, j) # sep
         IN  <<SubSeq(s, 1, i - 1)>> \o Split(SubSeq(s, i + 1, Len(s)), sep)
    ELSE <<s>>

----------------------------------------------------------------------------
\* Identifier and type utilities.

reservedWords ==
    ("break" :> "break_") @@ ("default" :> "default_") @@ ("func" :> "func_") @@
    ("interface" :> "interface_") @@ ("select" :> "select_") @@ ("case" :> "case_") @@
    ("defer" :> "defer_") @@ ("go" :> "go_") @@ ("map" :> "map_") @@
    ("struct" :> "struct_") @@ ("chan" :> "chan_") @@ ("else" :> "else_") @@
    ("goto" :> "goto_") @@ ("package" :> "package_") @@ ("switch" :> "switch_") @@
    ("const" :> "const_") @@ ("fallthrough" :> "fallthrough_") @@ ("if" :> "if_") @@
    ("range" :> "range_") @@ ("type" :> "type_") @@ ("continue" :> "continue_") @@
    ("for" :> "for_") @@ ("import" :> "import_") @@ ("return" :> "return_") @@
    ("var" :> "var_")

\* replaceReservedWords escaping every identifier.
replaceReservedWordsAlways(identifier) == identifier \o "_"

replaceReservedWords(identifier) ==
    LET value == MapGet(reservedWords, identifier)
    IN  IF value # "" THEN value ELSE identifier

xsd2GoTypes ==
    ("string" :> "string") @@ ("token" :> "string") @@
    ("float" :> "float32") @@ ("double" :> "float64") @@
    ("decimal" :> "float64") @@ ("integer" :> "int32") @@
    ("int" :> "int32") @@ ("short" :> "int16") @@ ("byte" :> "int8") @@
    ("long" :> "int64") @@ ("boolean" :> "bool") @@
    ("dateTime" :> "time.Time") @@ ("date" :> "time.Time") @@
    ("time" :> "time.Time") @@ ("base64Binary" :> "[]byte") @@
    ("hexBinary" :> "[]byte") @@ ("unsignedInt" :> "uint32") @@
    ("unsignedShort" :> "uint16") @@ ("unsignedByte" :> "byte") @@
    ("unsignedLong" :> "uint64") @@ ("anyType" :> "interface{}")

\* toGoType that never takes the part after the colon.
toGoTypeKeepPrefix(xsdType) ==
    IF xsdType = "" THEN ""
    ELSE LET r     == Split(xsdType, ":")
             type_ == r[1]
             value == MapGet(xsd2GoTypes, type_)
         IN  IF value # "" THEN value
             ELSE IF HasSuffix(type_, "[]")
                  THEN LET base == StrTo(type_, Len(type_) - 2)
                       IN  IF base \in DOMAIN xsd2GoTypes
                           THEN "[]" \o base
                           ELSE "[]*" \o base
                  ELSE "*" \o type_

toGoType(xsdType) ==
    IF xsdType = "" THEN ""
    ELSE LET r     == Split(xsdType, ":")
             type_ == IF Len(r) = 2 THEN r[2] ELSE r[1]
             value == MapGet(xsd2GoTypes, type_)
         IN  IF value # "" THEN value
             ELSE IF HasSuffix(type_, "[]")
                  THEN LET base == StrTo(type_, Len(type_) - 2)
                       IN  IF base \in DOMAIN xsd2GoTypes
                           THEN "[]" \o base
                           ELSE "[]*" \o base
                  ELSE "*" \o type_

----------------------------------------------------------------------------
\* The namespace index.

\* The outcome of a call: a returned string, or a run-time panic.
Returned(s) == [panic |-> FALSE, val |-> s]
Panicked    == [panic |-> TRUE, val |-> ""]

\* type_[0:3] is a slice expression: Go panics ("slice bounds out of range")
\* when 3 exceeds len(type_). type_[0:1] is in range for a non-empty type_,
\* and type_[0:2] is evaluated only after type_[0:3] was.
lookUpNamespace(type_, currentNs, index) ==
    IF type_ = "" THEN Returned(type_)
    ELSE IF StrTo(type_, 1) # "*" /\ Len(type_) < 3 THEN Panicked
    ELSE LET prefix == IF StrTo(type_, 1) = "*" THEN "*"
                       ELSE IF StrTo(type_, 3) = "[]*" THEN "[]*"
                       ELSE IF StrTo(type_, 2) = "[]" THEN "[]"
                       ELSE ""
             bare == StrFrom(type_, Len(prefix))
             targetNs == MapGet(index, bare)
         IN  IF targetNs = "" \/ targetNs = currentNs
             THEN Returned(prefix \o bare)
             ELSE Returned(prefix \o targetNs \o "." \o bare)

----------------------------------------------------------------------------
\* The schema and the generated packages.

\* The four packages generate starts a goroutine for, in the order of the
\* go statements.
Packages == <<"mo", "do", "enum", "fault">>

Namespaces == {Packages[i] : i \in 1..Len(Packages)}

\* The objects a schema of the model is made of. unit is the outcome of
\* executing the package's template on the object: text that gofmt accepts,
\* text that it rejects, or an execution error.
SchemaObjects ==
    { [Name |-> "VirtualMachine", Namespace |-> "mo",    unit |-> "wellformed"],
      [Name |-> "HostSystem",     Namespace |-> "do",    unit |-> "wellformed"],
      [Name |-> "HostSystem",     Namespace |-> "fault", unit |-> "malformed"],
      [Name |-> "Vm",             Namespace |-> "mo",    unit |-> "malformed"],
      [Name |-> "Vm",             Namespace |-> "enum",  unit |-> "execerror"] }

ObjectLists == UNION {[1..k -> SchemaObjects] : k \in 0..MaxObjects}

\* The range loop of generate cut one object short.
PopulatedAllButLast == bi >= Len(objects)

\* The range loop of generate has visited every object.
Populated == bi > Len(objects)

\* One iteration of the loop: objnsmap[obj.Name] = obj.Namespace
IndexPut(index, obj) == MapPut(index, obj.Name, obj.Namespace)

\* The whole loop, from an empty map.
RECURSIVE IndexOf(_)
IndexOf(objs) ==
    IF objs = <<>> THEN EmptyMap
    ELSE IndexPut(IndexOf(SubSeq(objs, 1, Len(objs) - 1)), objs[Len(objs)])

\* The packages of this generator that the import block of a package names.
ImportBlock(ns) ==
    IF ns = "do" THEN {"time"}
    ELSE IF ns = "mo" THEN {"github.com/c4milo/govsphere/vim/do", "time"}
    ELSE IF ns = "fault" THEN {"github.com/c4milo/govsphere/vim/do"}
    ELSE {}

mainPkg == "./vim"

FilePath(ns) == mainPkg \o "/" \o ns \o "/" \o ns \o ".go"

\* A piece of generated text. ok: gofmt parses it; canon: it is in gofmt's
\* canonical layout.
Text(kind, name, ok) == [kind |-> kind, name |-> name, ok |-> ok, canon |-> FALSE]

\* The banner every file starts with: a comment.
headerTmpl == Text("header", "", TRUE)

\* The objects the loop of genCode renders, with every object of the schema
\* taken for one of the package.
MatchingAll(objs, ns) == objs

\* The objects the loop of genCode renders: those of the package, in order.
Matching(objs, ns) == SelectSeq(objs, LAMBDA o : o.Namespace = ns)

\* template.Execute fails on some object of the package.
ExecuteFails(objs, ns) ==
    \E i \in 1..Len(Matching(objs, ns)) : Matching(objs, ns)[i].unit = "execerror"

\* data.Bytes(): header, package clause, import block, one unit per object.
Rendered(objs, ns) ==
    <<headerTmpl, Text("package", ns, TRUE)>>
    \o (IF ns \in {"do", "mo", "fault"}
        THEN <<[Text("import", ns, TRUE) EXCEPT !.name = ImportBlock(ns)]>>
        ELSE <<>>)
    \o [i \in 1..Len(Matching(objs, ns)) |->
            Text("unit", Matching(objs, ns)[i].Name,
                 Matching(objs, ns)[i].unit = "wellformed")]

\* format.Source: an error when some piece does not parse, else the text in
\* canonical layout.
FormatOK(source) == \A i \in 1..Len(source) : source[i].ok
Formatted(source) == [i \in 1..Len(source) |-> [source[i] EXCEPT !.canon = TRUE]]

\* The states of an output file.
Absent      == [present |-> FALSE, data |-> <<>>]
Created     == [present |-> TRUE, data |-> <<>>]
Holding(d)  == [present |-> TRUE, data |-> d]

\* A file left by an earlier run.
Stale       == Holding(<<[kind |-> "stale", name |-> "", ok |-> TRUE, canon |-> TRUE]>>)

\* What genCode writes when format.Source fails: nothing.
OnRejectNothing(source) == <<>>

\* What genCode writes when format.Source fails: fd.Write(source)
OnReject(source) == source

\* The process outcome.
Running == [over |-> FALSE, code |-> 0, by |-> "", cause |-> "", file |-> "", err |-> ""]
Fatal(by, cause, file, err) ==
    [over |-> TRUE, code |-> 1, by |-> by, cause |-> cause, file |-> file, err |-> err]

\* A process in which os.Exit stops nothing.
AliveAlways == TRUE

\* No goroutine takes a step once os.Exit was called.
Alive == ~exited.over

\* wg.Wait() that does not wait.
WaitReleasedAtOnce == TRUE

\* wg.Wait() returns when the counter is zero.
WaitReleased == wg = 0

NoCall == [fn |-> "", d |-> "", n |-> "", s |-> "", arg |-> "", ns |-> "",
           res |-> Returned(""), res2 |-> ""]

----------------------------------------------------------------------------
\* generate and genCode.

Init ==
    /\ objects = <<>>
    /\ objnsmap = EmptyMap
    /\ pc = "load"
    /\ bi = 1
    /\ wg = 0
    /\ task = [ns \in Namespaces |-> "unstarted"]
    /\ files \in [Namespaces -> {Absent, Stale}]
    /\ exited = Running
    /\ call = NoCall

\* ioutil.ReadFile and json.Unmarshal succeed; objnsmap = make(map)
ReadSchema ==
    /\ Alive /\ pc = "load"
    /\ \E objs \in ObjectLists : objects' = objs
    /\ objnsmap' = EmptyMap
    /\ bi' = 1
    /\ pc' = "populate"
    /\ UNCHANGED <<wg, task, files, exited, call>>

\* ioutil.ReadFile or json.Unmarshal fails: log.Fatalln(err)
ReadSchemaFails ==
    /\ Alive /\ pc = "load"
    /\ exited' = Fatal("generate", "schema", "", "read or parse error")
    /\ UNCHANGED <<objects, objnsmap, pc, bi, wg, task, files, call>>

\* for _, obj := range objects { objnsmap[obj.Name] = obj.Namespace }
Populate ==
    /\ Alive /\ pc = "populate" /\ ~Populated
    /\ objnsmap' = IndexPut(objnsmap, objects[bi])
    /\ bi' = bi + 1
    /\ UNCHANGED <<objects, pc, wg, task, files, exited, call>>

\* The loop ends; os.Mkdir(mainPkg, 0744)
PopulateDone ==
    /\ Alive /\ pc = "populate" /\ Populated
    /\ pc' = "go1"
    /\ UNCHANGED <<objects, objnsmap, bi, wg, task, files, exited, call>>

\* wg.Add(1); go func() { defer wg.Done(); genCode(...) }()
Go(i) ==
    /\ Alive /\ pc = "go" \o ToString(i)
    /\ wg' = wg + 1
    /\ task' = [task EXCEPT ![Packages[i]] = "started"]
    /\ pc' = IF i < Len(Packages) THEN "go" \o ToString(i + 1) ELSE "wait"
    /\ UNCHANGED <<objects, objnsmap, bi, files, exited, call>>

\* wg.Wait() returns, and generate with it.
Wait ==
    /\ Alive /\ pc = "wait" /\ WaitReleased
    /\ pc' = "returned"
    /\ UNCHANGED <<objects, objnsmap, bi, wg, task, files, exited, call>>

\* genCode: os.Mkdir(pkg); os.Create(file) succeeds: the file exists and is
\* empty (an existing file is truncated).
Create(ns) ==
    /\ Alive /\ task[ns] = "started"
    /\ files' = [files EXCEPT ![ns] = Created]
    /\ task' = [task EXCEPT ![ns] = "created"]
    /\ UNCHANGED <<objects, objnsmap, pc, bi, wg, exited, call>>

\* genCode: os.Create(file) fails: log.Fatalln(err)
CreateFails(ns) ==
    /\ Alive /\ task[ns] = "started"
    /\ exited' = Fatal(ns, "create", "", "create error")
    /\ UNCHANGED <<objects, objnsmap, pc, bi, wg, task, files, call>>

\* genCode: tmpl.Execute fails on an object of the package: log.Fatalln(err)
ExecuteFatal(ns) ==
    /\ Alive /\ task[ns] = "created"
    /\ ExecuteFails(objects, ns)
    /\ exited' = Fatal(ns, "template", "", "execute error")
    /\ UNCHANGED <<objects, objnsmap, pc, bi, wg, task, files, call>>

\* genCode: the buffer is rendered, format.Source accepts it: fd.Write(fsource).
\* The code discards the result of fd.Write; the write stores its argument.
WriteFormatted(ns) ==
    /\ Alive /\ task[ns] = "created"
    /\ ~ExecuteFails(objects, ns)
    /\ FormatOK(Rendered(objects, ns))
    /\ files' = [files EXCEPT ![ns] = Holding(Formatted(Rendered(objects, ns)))]
    /\ task' = [task EXCEPT ![ns] = "written"]
    /\ UNCHANGED <<objects, objnsmap, pc, bi, wg, exited, call>>

\* genCode: the buffer is rendered, format.Source rejects it: fd.Write(source)
WriteRejected(ns) ==
    /\ Alive /\ task[ns] = "created"
    /\ ~ExecuteFails(objects, ns)
    /\ ~FormatOK(Rendered(objects, ns))
    /\ files' = [files EXCEPT ![ns] = Holding(OnReject(Rendered(objects, ns)))]
    /\ task' = [task EXCEPT ![ns] = "rejected"]
    /\ UNCHANGED <<objects, objnsmap, pc, bi, wg, exited, call>>

\* genCode: log.Fatalf("There are errors in the generated source for %s: %s\n",
\* file, err.Error()) after the write of the raw buffer
FormatFatal(ns) ==
    /\ Alive /\ task[ns] = "rejected"
    /\ exited' = Fatal(ns, "format", FilePath(ns), "format error")
    /\ UNCHANGED <<objects, objnsmap, pc, bi, wg, task, files, call>>

\* genCode returns: the deferred fd.Close() and wg.Done()
Return(ns) ==
    /\ Alive /\ task[ns] = "written"
    /\ task' = [task EXCEPT ![ns] = "done"]
    /\ wg' = wg - 1
    /\ UNCHANGED <<objects, objnsmap, pc, bi, files, exited, call>>

Next ==
    \/ ReadSchema
    \/ ReadSchemaFails
    \/ Populate
    \/ PopulateDone
    \/ \E i \in 1..Len(Packages) : Go(i)
    \/ Wait
    \/ \E ns \in Namespaces : Create(ns)
    \/ \E ns \in Namespaces : CreateFails(ns)
    \/ \E ns \in Namespaces : ExecuteFatal(ns)
    \/ \E ns \in Namespaces : WriteFormatted(ns)
    \/ \E ns \in Namespaces : WriteRejected(ns)
    \/ \E ns \in Namespaces : FormatFatal(ns)
    \/ \E ns \in Namespaces : Return(ns)

Spec == Init /\ [][Next]_vars

----------------------------------------------------------------------------
\* The template functions, called on their own. The index is the one generate
\* has populated for a schema; the functions are applied to tokens,
\* references and identifiers of the kinds a schema holds.

\* Namespace prefixes of a type token ("" for none).
TypePrefixes == {"", "xsd:", "xs:", "vim25:"}

TypeBases == (DOMAIN xsd2GoTypes) \cup {"", "HostSystem", "Vm"}

ArraySuffixes == {"", "[]"}

\* The decorations toGoType puts before a name.
Decorations == {"", "*", "[]", "[]*"}

RefNames == {o.Name : o \in SchemaObjects} \cup {"", "Unknown"}

Identifiers ==
    (DOMAIN reservedWords)
    \cup {w \o "_" : w \in DOMAIN reservedWords}
    \cup {"", "name", "Type", "mapping", "_", "go__"}

InitFn ==
    /\ objects \in ObjectLists
    /\ objnsmap = IndexOf(objects)
    /\ pc = "populate"
    /\ bi = Len(objects) + 1
    /\ wg = 0
    /\ task = [ns \in Namespaces |-> "unstarted"]
    /\ files = [ns \in Namespaces |-> Absent]
    /\ exited = Running
    /\ call = NoCall

CallToGoType ==
    /\ \E p \in TypePrefixes, b \in TypeBases, x \in ArraySuffixes :
          call' = [fn |-> "toGoType", d |-> p, n |-> b, s |-> x,
                   arg |-> p \o b \o x, ns |-> "",
                   res |-> Returned(toGoType(p \o b \o x)), res2 |-> ""]
    /\ UNCHANGED <<objects, objnsmap, pc, bi, wg, task, files, exited>>

CallLookUpNamespace ==
    /\ \E d \in Decorations, n \in RefNames, c \in Namespaces :
          call' = [fn |-> "lookUpNamespace", d |-> d, n |-> n, s |-> "",
                   arg |-> d \o n, ns |-> c,
                   res |-> lookUpNamespace(d \o n, c, objnsmap), res2 |-> ""]
    /\ UNCHANGED <<objects, objnsmap, pc, bi, wg, task, files, exited>>

\* The function applied once (res) and to its own result (res2).
CallReplaceReservedWords ==
    /\ \E id \in Identifiers :
          call' = [fn |-> "replaceReservedWords", d |-> "", n |-> id, s |-> "",
                   arg |-> id, ns |-> "",
                   res |-> Returned(replaceReservedWords(id)),
                   res2 |-> replaceReservedWords(replaceReservedWords(id))]
    /\ UNCHANGED <<objects, objnsmap, pc, bi, wg, task, files, exited>>

NextFn ==
    \/ CallToGoType
    \/ CallLookUpNamespace
    \/ CallReplaceReservedWords

SpecFn == InitFn /\ [][NextFn]_vars

----------------------------------------------------------------------------
\* Properties.

\* C1: for every name n of the index, owned by o, every decoration d and
\* every namespace c: lookUpNamespace(d+n, c) returns (it does not panic),
\* and returns d+n when c = o and d+o+"."+n otherwise.
C1_ResolveIndexedNames ==
    (call.fn = "lookUpNamespace" /\ call.n \in DOMAIN objnsmap) =>
        /\ ~call.res.panic
        /\ call.res.val = IF call.ns = objnsmap[call.n]
                          THEN call.d \o call.n
                          ELSE call.d \o objnsmap[call.n] \o "." \o call.n

\* C2: for every token base+"[]" with a non-empty base, prefixed or not,
\* toGoType returns "[]" followed by the scalar mapping of base: the native
\* type of the table for a primitive base, "*"+base otherwise.
C2_ArrayOfScalarMapping ==
    (call.fn = "toGoType" /\ call.s = "[]" /\ call.n # "") =>
        call.res.val = IF call.n \in DOMAIN xsd2GoTypes
                       THEN "[]" \o xsd2GoTypes[call.n]
                       ELSE "[]*" \o call.n

\* C3: for every key k of the primitive table, with or without a namespace
\* prefix, toGoType returns xsd2GoTypes[k]; the empty token maps to "".
C3_PrimitiveMapping ==
    (call.fn = "toGoType" /\ call.s = "") =>
        /\ call.n \in DOMAIN xsd2GoTypes => call.res.val = xsd2GoTypes[call.n]
        /\ call.arg = "" => call.res.val = ""

C3_Witness ==
    /\ call.fn = "toGoType"
    /\ call.arg = "xsd:int"
    /\ call.res.val = "int32"

\* C4: replaceReservedWords returns identifier+"_" for an identifier of the
\* reserved-word table, any other identifier unchanged, and applying it twice
\* gives what applying it once gives.
C4_ReservedWords ==
    call.fn = "replaceReservedWords" =>
        /\ call.arg \in DOMAIN reservedWords => call.res.val = call.arg \o "_"
        /\ call.arg \notin DOMAIN reservedWords => call.res.val = call.arg
        /\ call.res2 = call.res.val

C4_Witness ==
    /\ call.fn = "replaceReservedWords"
    /\ call.arg = "map"
    /\ call.res.val = "map_"
    /\ call.res2 = "map_"

\* The map a single pass over all the objects produces: each name with the
\* namespace of the last object that bears it.
FullIndex(objs) ==
    [n \in {objs[i].Name : i \in DOMAIN objs} |->
        objs[CHOOSE i \in DOMAIN objs :
                /\ objs[i].Name = n
                /\ \A j \in DOMAIN objs : objs[j].Name = n => j <= i].Namespace]

SomeTaskStarted == \E ns \in Namespaces : task[ns] # "unstarted"

\* C5: in every state where some genCode task has started, objnsmap is the
\* map of the complete build pass over the schema: the index is complete
\* before the first task starts and no entry changes afterwards.
C5_IndexBuiltBeforeTasks == SomeTaskStarted => objnsmap = FullIndex(objects)

C5_Witness ==
    /\ task["fault"] = "created"
    /\ Len(objects) = 2
    /\ objects[1].Name = objects[2].Name
    /\ objects[1].Namespace # objects[2].Namespace

\* C6: once generate has passed wg.Wait(), each of the four tasks has
\* finished and its file holds the reformatted source of its package.
C6_ReturnAfterAllTasks ==
    pc = "returned" =>
        \A ns \in Namespaces :
            /\ task[ns] = "done"
            /\ FormatOK(Rendered(objects, ns))
            /\ files[ns] = Holding(Formatted(Rendered(objects, ns)))

C6_Witness == pc = "returned" /\ Len(objects) = 2

\* C7: when format.Source rejects the buffer of a namespace, the raw buffer
\* is written to its file before the fatal report; the process then ends with
\* a non-zero code and a diagnostic naming the file and the formatting error,
\* the raw buffer is in the file, and the reformatted text never is.
C7_RawBufferOnReject ==
    \A ns \in Namespaces :
        /\ task[ns] = "rejected" => files[ns] = Holding(Rendered(objects, ns))
        /\ (exited.over /\ exited.by = ns /\ exited.cause = "format") =>
              /\ task[ns] = "rejected"
              /\ exited.code # 0
              /\ exited.file = FilePath(ns)
              /\ exited.err # ""
              /\ files[ns] = Holding(Rendered(objects, ns))
        /\ ~FormatOK(Rendered(objects, ns)) =>
              files[ns] # Holding(Formatted(Rendered(objects, ns)))

C7_Witness ==
    /\ exited.over
    /\ exited.cause = "format"
    /\ exited.by = "mo"
    /\ files["mo"].data # <<>>

NoObjectsOf(ns) == \A i \in DOMAIN objects : objects[i].Namespace # ns

\* The fixed header of a package: banner, package clause and, for the
\* packages that have one, the import block.
HeaderOnly(ns) ==
    <<headerTmpl, Text("package", ns, TRUE)>>
    \o (IF ImportBlock(ns) # {}
        THEN <<[Text("import", ns, TRUE) EXCEPT !.name = ImportBlock(ns)]>>
        ELSE <<>>)

\* C8: the task of a namespace the schema has no object of is never refused
\* by format.Source and never ends fatally in rendering or formatting (the
\* only fatal end left to it is os.Create failing); once it has written, its
\* file holds the reformatted fixed header and nothing else, and the file is
\* there when generate returns.
C8_EmptyNamespace ==
    \A ns \in Namespaces : NoObjectsOf(ns) =>
        /\ task[ns] # "rejected"
        /\ (exited.over /\ exited.by = ns) => exited.cause = "create"
        /\ task[ns] \in {"written", "done"} =>
              files[ns] = Holding(Formatted(HeaderOnly(ns)))
        /\ pc = "returned" =>
              files[ns] = Holding(Formatted(HeaderOnly(ns)))

C8_Witness ==
    /\ pc = "returned"
    /\ Len(objects) = 2
    /\ \A ns \in Namespaces \ {"mo"} : NoObjectsOf(ns)
    /\ files["enum"] = Holding(Formatted(HeaderOnly("enum")))
    /\ files["do"] = Holding(Formatted(HeaderOnly("do")))

\* C9: after a fatal report no goroutine takes a step: the files, the tasks
\* and generate stay as they are; a task whose buffer was rejected never
\* resumes and generate does not return past it.
C9_FatalStopsSiblings ==
    [][ /\ exited.over => (files' = files /\ task' = task /\ pc' = pc /\ wg' = wg)
        /\ \A ns \in Namespaces :
              task[ns] = "rejected" => (task'[ns] = "rejected" /\ pc' # "returned")
      ]_vars

\* A post-processing failure of one task has ended the process while one
\* sibling's file is absent and another's is created and still empty.
C9_Witness ==
    /\ exited.over
    /\ exited.cause = "format"
    /\ \E a, b \in Namespaces \ {exited.by} :
          /\ files[a] = Absent
          /\ files[b] = Created
          /\ task[b] = "created"

\* A returned name without its decoration.
Undecorated(v) ==
    IF Len(v) >= 1 /\ StrTo(v, 1) = "*" THEN StrFrom(v, 1)
    ELSE IF Len(v) >= 3 /\ StrTo(v, 3) = "[]*" THEN StrFrom(v, 3)
    ELSE IF Len(v) >= 2 /\ StrTo(v, 2) = "[]" THEN StrFrom(v, 2)
    ELSE v

\* The namespace a returned name is qualified with, "" when it is not.
Qualifier(v) ==
    LET parts == Split(Undecorated(v), ".")
    IN  IF Len(parts) = 2 THEN parts[1] ELSE ""

\* The generated packages that the import block of ns imports.
Imports(ns) ==
    {q \in Namespaces : ("github.com/c4milo/govsphere/vim/" \o q) \in ImportBlock(ns)}

QualifiedCall ==
    /\ call.fn = "lookUpNamespace"
    /\ ~call.res.panic
    /\ Qualifier(call.res.val) # ""

\* C10: for every schema, namespace N and reference, whenever
\* lookUpNamespace(ref, N) returns a qualified name q.T, q is a namespace the
\* import block of N imports.
C10_QualifierIsImported ==
    QualifiedCall => Qualifier(call.res.val) \in Imports(call.ns)

====
